---- MODULE Spec2Model ----
(***************************************************************************)
(* Model of the authentication gate of print_list:                         *)
(*   - class Auth (lib/auth.js): the verification decision procedure,      *)
(*   - the user_cookies table behind the supabase client,                  *)
(*   - the standalone store operations checkCookieState / createCookie.    *)
(*                                                                         *)
(* Strings are sequences of code points (character codes).  A JavaScript   *)
(* null / undefined string is the one-element sequence <<-1>>, which no    *)
(* string equals because code points are never negative.                   *)
(***************************************************************************)
EXTENDS Integers, Sequences, FiniteSets, Bags, TLC

\* ------------------------------------------------------------------------
\* Bounds of the model
\* ------------------------------------------------------------------------

\* Number of isVerified() calls that can be suspended at the same time.
MaxCalls == 2

\* Number of rows the user_cookies table can hold; a full table answers an
\* insert with an error.
MaxRecords == 2

\* ------------------------------------------------------------------------
\* JavaScript string primitives
\* ------------------------------------------------------------------------

Null == <<-1>>

\* !!x for a string-or-null x: null, undefined and '' are falsy.
Truthy(s) == s # Null /\ s # <<>>

\* x || null
OrNull(s) == IF Truthy(s) THEN s ELSE Null

\* The literal 'Basic '
BasicPrefix == <<66, 97, 115, 105, 99, 32>>

\* String.prototype.startsWith; on null the optional chain yields undefined,
\* which is falsy.
StartsWith(s, p) ==
    /\ s # Null
    /\ Len(s) >= Len(p)
    /\ SubSeq(s, 1, Len(p)) = p

\* Position of the first occurrence of pat in s, 0 when there is none.
IndexOf(s, pat) ==
    LET hits == {i \in 1..(Len(s) - Len(pat) + 1) :
                    SubSeq(s, i, i + Len(pat) - 1) = pat}
    IN  IF hits = {} THEN 0
        ELSE CHOOSE i \in hits : \A j \in hits : i <= j

\* String.prototype.replace with a string pattern: the first occurrence only.
Replace(s, pat, rep) ==
    LET i == IndexOf(s, pat)
    IN  IF i = 0 THEN s
        ELSE SubSeq(s, 1, i - 1) \o rep \o SubSeq(s, i + Len(pat), Len(s))

\* ------------------------------------------------------------------------
\* Buffer.from(text, 'base64'): the lenient decoder of Node
\* ------------------------------------------------------------------------

\* Value of a base64 character, -1 for a character outside the alphabet.
\* Both the standard ('+', '/') and the URL-safe ('-', '_') alphabets count.
unbase64(c) ==
    CASE c \in 65..90         -> c - 65
      [] c \in 97..122        -> c - 71
      [] c \in 48..57         -> c + 4
      [] c = 43 \/ c = 45     -> 62
      [] c = 47 \/ c = 95     -> 63
      [] OTHER                -> -1

\* Decoding stops at the first '=' (61).
UpToPadding(s) ==
    LET i == IndexOf(s, <<61>>)
    IN  IF i = 0 THEN s ELSE SubSeq(s, 1, i - 1)

\* The 6-bit values of the legal characters; illegal characters are skipped.
Sextets(s) ==
    LET vals == [i \in 1..Len(s) |-> unbase64(s[i])]
        legal(v) == v >= 0
    IN  SelectSeq(vals, legal)

\* Bytes out of the sextets: 4 sextets make 3 bytes, a trailing group of 2
\* makes 1 byte, of 3 makes 2 bytes, and a single trailing sextet is dropped.
Base64Decode(s) ==
    LET q    == Sextets(UpToPadding(s))
        n    == Len(q)
        tail == CASE n % 4 = 2 -> 1 [] n % 4 = 3 -> 2 [] OTHER -> 0
        byte(k) ==
            LET g == (k - 1) \div 3
                j == (k - 1) % 3
                a == q[4 * g + j + 1]
                b == q[4 * g + j + 2]
            IN  CASE j = 0 -> a * 4 + (b \div 16)
                  [] j = 1 -> (a % 16) * 16 + (b \div 4)
                  [] OTHER -> (a % 4) * 64 + b
    IN  [k \in 1..(3 * (n \div 4) + tail) |-> byte(k)]

\* ------------------------------------------------------------------------
\* buffer.toString(): UTF-8 decoding with U+FFFD for every ill-formed part
\* ------------------------------------------------------------------------

\* Number of continuation bytes a lead byte asks for, -1 for a byte that
\* cannot start a sequence.
Utf8Needed(b) ==
    CASE b \in 0..127   -> 0
      [] b \in 194..223 -> 1
      [] b \in 224..239 -> 2
      [] b \in 240..244 -> 3
      [] OTHER          -> -1

\* Range allowed for the first continuation byte after lead byte b.
Utf8Lower(b) == CASE b = 224 -> 160 [] b = 240 -> 144 [] OTHER -> 128
Utf8Upper(b) == CASE b = 237 -> 159 [] b = 244 -> 143 [] OTHER -> 191

RECURSIVE Utf8DecodeFrom(_, _)
Utf8DecodeFrom(bytes, i) ==
    IF i > Len(bytes) THEN <<>>
    ELSE
        LET b      == bytes[i]
            needed == Utf8Needed(b)
            ok(j)  == /\ i + j <= Len(bytes)
                      /\ bytes[i + j] >= (IF j = 1 THEN Utf8Lower(b) ELSE 128)
                      /\ bytes[i + j] <= (IF j = 1 THEN Utf8Upper(b) ELSE 191)
            good   == {m \in 0..needed : \A j \in 1..m : ok(j)}
            n      == CHOOSE m \in good : \A x \in good : x <= m
            lead   == CASE needed = 1 -> b - 192
                        [] needed = 2 -> b - 224
                        [] needed = 3 -> b - 240
                        [] OTHER      -> b
            RECURSIVE value(_, _)
            value(acc, j) ==
                IF j > needed THEN acc
                ELSE value(acc * 64 + (bytes[i + j] - 128), j + 1)
        IN  IF needed < 0 THEN <<65533>> \o Utf8DecodeFrom(bytes, i + 1)
            ELSE IF n < needed THEN <<65533>> \o Utf8DecodeFrom(bytes, i + n + 1)
            ELSE <<value(lead, 1)>> \o Utf8DecodeFrom(bytes, i + needed + 1)

Utf8Decode(bytes) == Utf8DecodeFrom(bytes, 1)

\* ------------------------------------------------------------------------
\* What a client does to build the inline credential 'Basic ' + base64(S)
\* ------------------------------------------------------------------------

\* UTF-8 bytes of one code point.
Utf8Bytes(cp) ==
    CASE cp < 128   -> <<cp>>
      [] cp < 2048  -> <<192 + (cp \div 64), 128 + (cp % 64)>>
      [] cp < 65536 -> <<224 + (cp \div 4096), 128 + ((cp \div 64) % 64),
                         128 + (cp % 64)>>
      [] OTHER      -> <<240 + (cp \div 262144), 128 + ((cp \div 4096) % 64),
                         128 + ((cp \div 64) % 64), 128 + (cp % 64)>>

RECURSIVE Utf8Encode(_)
Utf8Encode(s) ==
    IF s = <<>> THEN <<>> ELSE Utf8Bytes(Head(s)) \o Utf8Encode(Tail(s))

\* Character of a 6-bit value in the standard alphabet.
base64char(v) ==
    CASE v < 26 -> 65 + v
      [] v < 52 -> 71 + v
      [] v < 62 -> v - 4
      [] v = 62 -> 43
      [] OTHER  -> 47

\* Standard base64 with '=' padding.
RECURSIVE Base64Encode(_)
Base64Encode(bytes) ==
    LET n == Len(bytes)
    IN  CASE n = 0 -> <<>>
          [] n = 1 -> <<base64char(bytes[1] \div 4),
                        base64char((bytes[1] % 4) * 16), 61, 61>>
          [] n = 2 -> <<base64char(bytes[1] \div 4),
                        base64char((bytes[1] % 4) * 16 + (bytes[2] \div 16)),
                        base64char((bytes[2] % 16) * 4), 61>>
          [] OTHER -> <<base64char(bytes[1] \div 4),
                        base64char((bytes[1] % 4) * 16 + (bytes[2] \div 16)),
                        base64char((bytes[2] % 16) * 4 + (bytes[3] \div 64)),
                        base64char(bytes[3] % 64)>>
                      \o Base64Encode(SubSeq(bytes, 4, n))

\* The header value a client sends for the password s.
BasicCredential(s) == BasicPrefix \o Base64Encode(Utf8Encode(s))

\* ------------------------------------------------------------------------
\* The user_cookies table behind the supabase client
\* ------------------------------------------------------------------------

\* The opaque token the table generates for its n-th row: 'T' and a digit.
Token(n) == <<84, 48 + n>>

\* Variant: the lookup marks the record it finds as verified.
SelectQuery_confirm(cookie) ==
    [op |-> "update", cookie_string |-> cookie, is_verified |-> TRUE]

\* .from('user_cookies').select().eq('cookie_string', cookie)
SelectQuery(cookie) == [op |-> "select", cookie_string |-> cookie]

\* Variant: the insert names no is_verified, and the column takes its
\* default, false.
InsertQuery_default(verified) == [op |-> "insert", is_verified |-> FALSE]

\* .from('user_cookies').insert({ is_verified }).select()
InsertQuery(verified) == [op |-> "insert", is_verified |-> verified]

\* The rows a select answers with.
StoreSelect(table, query) ==
    LET match(r) == r.cookie_string = query.cookie_string
    IN  SelectSeq(table, match)

\* The row an insert adds: the table generates record_id and cookie_string.
StoreNewRow(table, query) ==
    [record_id     |-> Len(table) + 1,
     cookie_string |-> Token(Len(table) + 1),
     is_verified   |-> query.is_verified]

\* The rows of the table a query with .eq('cookie_string', ...) addresses.
StoreMatches(query, r) == r.cookie_string = query.cookie_string

\* The table after the query has been executed.  The table executes whatever
\* query it is sent: an update or a delete would rewrite or drop rows.
StoreApply(table, query) ==
    IF query.op = "insert" THEN Append(table, StoreNewRow(table, query))
    ELSE IF query.op = "update" THEN
        [i \in DOMAIN table |->
            IF StoreMatches(query, table[i])
            THEN [table[i] EXCEPT !.is_verified = query.is_verified]
            ELSE table[i]]
    ELSE IF query.op = "delete" THEN
        LET kept(r) == ~StoreMatches(query, r) IN SelectSeq(table, kept)
    ELSE table

\* The rows the executed query answers with.
StoreData(table, query) ==
    IF query.op = "insert" THEN <<StoreNewRow(table, query)>>
    ELSE IF query.op = "update" THEN
        LET hit(r) == StoreMatches(query, r)
        IN  SelectSeq(StoreApply(table, query), hit)
    ELSE StoreSelect(table, query)

\* What the awaited query resolves to.  outcome is "ok", "error" (the client
\* resolves with an error object and no data) or "throw" (the await rejects).
DbResponse(outcome, rows) ==
    [thrown |-> outcome = "throw",
     error  |-> outcome = "error",
     data   |-> IF outcome = "ok" THEN rows ELSE <<>>]

Outcomes == {"ok", "error", "throw"}

\* ------------------------------------------------------------------------
\* class Auth
\* ------------------------------------------------------------------------

\* An exception leaving a function.
Thrown == [thrown |-> TRUE]

Return(v) == [kind |-> "return", value |-> v]
Await(q)  == [kind |-> "await", query |-> q]

Verdict(verified, reason, newCookie) ==
    [verified |-> verified, reason |-> reason, newCookie |-> newCookie]

\* constructor(req)
Auth(req) ==
    [authHeader    |-> OrNull(req.authorization),
     sessionCookie |-> OrNull(req.cookie)]

\* Variant: only a 'Basic ' header counts as an inline credential.
hasAuthHeader_basicOnly(self) == StartsWith(self.authHeader, BasicPrefix)

hasAuthHeader(self) == Truthy(self.authHeader)

hasCookie(self) == Truthy(self.sessionCookie)

\* Variant: the operands of a prefix comparison, swapped.
authHeaderPasswordMatch_prefix(self, expectedPassword) ==
    IF ~StartsWith(self.authHeader, BasicPrefix) THEN FALSE
    ELSE
        LET encodedPassword == Replace(self.authHeader, BasicPrefix, <<>>)
            decodedPassword == Utf8Decode(Base64Decode(encodedPassword))
        IN  StartsWith(expectedPassword, decodedPassword)

\* Variant: the payload is compared as it was sent, not decoded.
authHeaderPasswordMatch_undecoded(self, expectedPassword) ==
    IF ~StartsWith(self.authHeader, BasicPrefix) THEN FALSE
    ELSE
        LET encodedPassword == Replace(self.authHeader, BasicPrefix, <<>>)
        IN  encodedPassword = expectedPassword

\* #authHeaderPasswordMatch(); expectedPassword is process.env.data_password.
\* Buffer.from(..., 'base64') never throws, so the catch branch is dead.
authHeaderPasswordMatch(self, expectedPassword) ==
    IF ~StartsWith(self.authHeader, BasicPrefix) THEN FALSE
    ELSE
        LET encodedPassword == Replace(self.authHeader, BasicPrefix, <<>>)
            decodedPassword == Utf8Decode(Base64Decode(encodedPassword))
        IN  decodedPassword = expectedPassword

NotFound == [found |-> FALSE, verified |-> FALSE, id |-> Null]

\* Variant: every check of a session cookie stores a fresh record.
isCookieVerifiedStart_renew(self) ==
    IF ~hasCookie(self) THEN Return(NotFound)
    ELSE Await(InsertQuery(TRUE))

\* #isCookieVerified() up to its await.
isCookieVerifiedStart(self) ==
    IF ~hasCookie(self) THEN Return(NotFound)
    ELSE Await(SelectQuery(self.sessionCookie))

\* Variant: a failed lookup counts as a verified record.
isCookieVerifiedResume_failOpen(dbResponse) ==
    IF dbResponse.thrown \/ dbResponse.error
    THEN [found |-> TRUE, verified |-> TRUE, id |-> Null]
    ELSE IF Len(dbResponse.data) > 0 THEN
        LET record == dbResponse.data[1]
        IN  [found |-> TRUE, verified |-> record.is_verified,
             id |-> record.record_id]
    ELSE NotFound

\* Variant: no try block around the lookup.
isCookieVerifiedResume_noCatch(dbResponse) ==
    IF dbResponse.thrown THEN Thrown
    ELSE IF dbResponse.error THEN NotFound
    ELSE IF Len(dbResponse.data) > 0 THEN
        LET record == dbResponse.data[1]
        IN  [found |-> TRUE, verified |-> record.is_verified,
             id |-> record.record_id]
    ELSE NotFound

\* #isCookieVerified() from its await on.
isCookieVerifiedResume(dbResponse) ==
    IF dbResponse.thrown THEN NotFound
    ELSE IF dbResponse.error THEN NotFound
    ELSE IF Len(dbResponse.data) > 0 THEN
        LET record == dbResponse.data[1]
        IN  [found |-> TRUE, verified |-> record.is_verified,
             id |-> record.record_id]
    ELSE NotFound

NotCreated == [success |-> FALSE, cookie |-> Null, id |-> Null]

\* Variant: the row is inserted with is_verified false.
createCookieStart_unverified == Await(InsertQuery(FALSE))

\* #createCookie() up to its await.
createCookieStart == Await(InsertQuery(TRUE))

\* Variant: no try block around the insert.
createCookieResume_noCatch(dbResponse) ==
    IF dbResponse.thrown THEN Thrown
    ELSE IF dbResponse.error THEN NotCreated
    ELSE
        LET record == dbResponse.data[1]
        IN  [success |-> TRUE, cookie |-> record.cookie_string,
             id |-> record.record_id]

\* #createCookie() from its await on.  Reading data[0] of an answer without
\* rows throws a TypeError inside the try block.
createCookieResume(dbResponse) ==
    IF dbResponse.thrown THEN NotCreated
    ELSE IF dbResponse.error THEN NotCreated
    ELSE IF Len(dbResponse.data) = 0 THEN NotCreated
    ELSE
        LET record == dbResponse.data[1]
        IN  [success |-> TRUE, cookie |-> record.cookie_string,
             id |-> record.record_id]

\* Variant: a caller that already holds a session cookie keeps it.
isVerifiedAfterCreate_reuse(self, cookieResult) ==
    IF cookieResult = Thrown THEN Thrown
    ELSE Verdict(TRUE, "Authorization header verified",
                 IF hasCookie(self) THEN self.sessionCookie
                 ELSE IF cookieResult.success THEN cookieResult.cookie
                 ELSE Null)

\* isVerified() after `await this.#createCookie()`.
isVerifiedAfterCreate(self, cookieResult) ==
    IF cookieResult = Thrown THEN Thrown
    ELSE Verdict(TRUE, "Authorization header verified",
                 IF cookieResult.success THEN cookieResult.cookie ELSE Null)

\* Variant: the is_verified flag of the record is not looked at.
isVerifiedAfterCheck_noFlag(self, cookieCheck) ==
    IF cookieCheck = Thrown THEN Thrown
    ELSE IF ~cookieCheck.found THEN
        Verdict(FALSE, "Session cookie not found", Null)
    ELSE Verdict(TRUE, "Session cookie verified", Null)

\* Variant: an unverified record is reported as a missing one.
isVerifiedAfterCheck_reason(self, cookieCheck) ==
    IF cookieCheck = Thrown THEN Thrown
    ELSE IF ~cookieCheck.found \/ ~cookieCheck.verified THEN
        Verdict(FALSE, "Session cookie not found", Null)
    ELSE Verdict(TRUE, "Session cookie verified", Null)

\* isVerified() after `await this.#isCookieVerified()`.
isVerifiedAfterCheck(self, cookieCheck) ==
    IF cookieCheck = Thrown THEN Thrown
    ELSE IF ~cookieCheck.found THEN
        Verdict(FALSE, "Session cookie not found", Null)
    ELSE IF ~cookieCheck.verified THEN
        Verdict(FALSE, "Session cookie is not verified", Null)
    ELSE Verdict(TRUE, "Session cookie verified", Null)

\* Variant: the password comparison is skipped.
isVerifiedStart_noCompare(self, expectedPassword) ==
    IF hasAuthHeader(self) THEN
        IF ~StartsWith(self.authHeader, BasicPrefix) THEN
            Return(Verdict(FALSE, "Invalid Authorization pattern", Null))
        ELSE createCookieStart
    ELSE IF ~hasCookie(self) THEN
        Return(Verdict(FALSE,
                       "No Authorization header or session cookie found", Null))
    ELSE
        LET check == isCookieVerifiedStart(self)
        IN  IF check.kind = "return"
            THEN Return(isVerifiedAfterCheck(self, check.value))
            ELSE check

\* Variant: a credential that does not match falls back on the session
\* cookie.
isVerifiedStart_fallback(self, expectedPassword) ==
    LET check == isCookieVerifiedStart(self)
        byCookie ==
            IF check.kind = "return"
            THEN Return(isVerifiedAfterCheck(self, check.value))
            ELSE check
    IN  IF hasAuthHeader(self) THEN
            IF ~StartsWith(self.authHeader, BasicPrefix) THEN
                Return(Verdict(FALSE, "Invalid Authorization pattern", Null))
            ELSE IF ~authHeaderPasswordMatch(self, expectedPassword) THEN
                IF hasCookie(self) THEN byCookie
                ELSE Return(Verdict(FALSE, "Password does not match", Null))
            ELSE createCookieStart
        ELSE IF ~hasCookie(self) THEN
            Return(Verdict(FALSE,
                       "No Authorization header or session cookie found", Null))
        ELSE byCookie

\* Variant: the session cookie is looked at before the Authorization header.
isVerifiedStart_cookieFirst(self, expectedPassword) ==
    IF hasCookie(self) THEN isCookieVerifiedStart(self)
    ELSE IF ~hasAuthHeader(self) THEN
        Return(Verdict(FALSE,
                       "No Authorization header or session cookie found", Null))
    ELSE IF ~StartsWith(self.authHeader, BasicPrefix) THEN
        Return(Verdict(FALSE, "Invalid Authorization pattern", Null))
    ELSE IF ~authHeaderPasswordMatch(self, expectedPassword) THEN
        Return(Verdict(FALSE, "Password does not match", Null))
    ELSE createCookieStart

\* isVerified() up to its first await on the store.
isVerifiedStart(self, expectedPassword) ==
    IF hasAuthHeader(self) THEN
        IF ~StartsWith(self.authHeader, BasicPrefix) THEN
            Return(Verdict(FALSE, "Invalid Authorization pattern", Null))
        ELSE IF ~authHeaderPasswordMatch(self, expectedPassword) THEN
            Return(Verdict(FALSE, "Password does not match", Null))
        ELSE createCookieStart
    ELSE IF ~hasCookie(self) THEN
        Return(Verdict(FALSE,
                       "No Authorization header or session cookie found", Null))
    ELSE
        LET check == isCookieVerifiedStart(self)
        IN  IF check.kind = "return"
            THEN Return(isVerifiedAfterCheck(self, check.value))
            ELSE check

\* ------------------------------------------------------------------------
\* The standalone store operations
\* ------------------------------------------------------------------------

returnHandler(success, id, verified, message, error) ==
    [success |-> success, id |-> id, verified |-> verified,
     message |-> message, error |-> error]

\* createCookie(verified) up to its await.  A call without an argument
\* takes the default, false.
exportedCreateCookieStart(verified) ==
    IF verified.typeof # "boolean"
    THEN Return(returnHandler(FALSE, Null, Null,
                    "the \"verified\" parameter must be a boolean", TRUE))
    ELSE Await(InsertQuery(verified.value))

\* createCookie(verified) from its await on.
exportedCreateCookieResume(dbResponse) ==
    IF dbResponse.thrown
    THEN returnHandler(FALSE, Null, Null,
                       "unexpected error fetching the database: ", TRUE)
    ELSE IF dbResponse.error
    THEN returnHandler(FALSE, Null, Null,
                       "internal error fetching the database: ", TRUE)
    ELSE IF Len(dbResponse.data) = 0
    THEN returnHandler(FALSE, Null, Null,
                       "unexpected error fetching the database: ", TRUE)
    ELSE
        LET record == dbResponse.data[1]
        IN  returnHandler(TRUE, record.record_id, record.is_verified,
                          record.cookie_string, FALSE)

\* String.prototype.trim() leaves nothing of the string: every code point
\* is white space (space, tab, line feed, carriage return).
TrimsToEmpty(s) == \A i \in 1..Len(s) : s[i] \in {9, 10, 13, 32}

\* checkCookieState(cookie) up to its await.  The query carries the cookie
\* as it was passed, not trimmed.
checkCookieStateStart(cookie) ==
    IF ~Truthy(cookie) \/ TrimsToEmpty(cookie)
    THEN Return(returnHandler(FALSE, Null, Null,
                              "cookie argument is required", TRUE))
    ELSE Await(SelectQuery(cookie))

\* checkCookieState(cookie) from its await on.
checkCookieStateResume(dbResponse) ==
    IF dbResponse.thrown
    THEN returnHandler(FALSE, Null, Null,
                       "unexpected error fetching the database: ", TRUE)
    ELSE IF dbResponse.error
    THEN returnHandler(FALSE, Null, Null,
                       "internal error fetching the database: ", TRUE)
    ELSE IF Len(dbResponse.data) > 0 THEN
        LET record == dbResponse.data[1]
        IN  returnHandler(TRUE, record.record_id, record.is_verified,
                          "", FALSE)
    ELSE returnHandler(FALSE, Null, Null, "cookie not found", FALSE)

\* ------------------------------------------------------------------------
\* class ApiResponse
\* ------------------------------------------------------------------------

\* String(n) of a non-negative integer, as a template literal renders it.
RECURSIVE NumberToString(_)
NumberToString(n) ==
    IF n < 10 THEN <<48 + n>>
    ELSE NumberToString(n \div 10) \o <<48 + (n % 10)>>

\* `__Host-session=${newCookie}; Max-Age=${30 * 24 * 60 * 60}; HttpOnly;
\* Secure; Path=/`
SetCookie(newCookie) ==
    <<95, 95, 72, 111, 115, 116, 45, 115, 101, 115, 115, 105, 111, 110, 61>>
    \o newCookie
    \o <<59, 32, 77, 97, 120, 45, 65, 103, 101, 61>>
    \o NumberToString(30 * 24 * 60 * 60)
    \o <<59, 32, 72, 116, 116, 112, 79, 110, 108, 121, 59, 32, 83, 101, 99, 117, 114, 101, 59, 32, 80, 97, 116, 104, 61, 47>>

\* A request that is not an object: new Auth(req) throws on it.
NotAnObject == [typeof |-> "string"]

\* new Auth(req), with the check of the constructor.
NewAuth(req) == IF req = NotAnObject THEN Thrown ELSE Auth(req)

\* isVerified() from its await on: the call is inside #createCookie() when
\* it took the branch of the Authorization header, and inside
\* #isCookieVerified() otherwise.
isVerifiedResume(self, dbResponse) ==
    IF hasAuthHeader(self)
    THEN isVerifiedAfterCreate(self, createCookieResume(dbResponse))
    ELSE isVerifiedAfterCheck(self, isCookieVerifiedResume(dbResponse))

\* A callback may return or throw.
CallbackOutcomes == {"ok", "throw"}

\* What a callback is invoked with; res is the Set-Cookie header of the
\* response object at that moment.
OnSuccess(newCookie, res) ==
    [callback |-> "onSuccess", newCookie |-> newCookie, res |-> res]
OnError(reason, res) ==
    [callback |-> "onError", reason |-> reason, res |-> res]

\* How send() settles: the Set-Cookie header of the response, the callbacks
\* invoked in order, and whether the promise of send() is rejected.
Settled(header, invoked, rejected) ==
    [header |-> header, invoked |-> invoked, rejected |-> rejected]

\* The catch block of send().  callbacks[k] is the outcome of the k-th
\* callback invocation.
sendCatch(header, invoked, callbacks) ==
    Settled(header,
            Append(invoked, OnError("Internal authentication error", header)),
            callbacks[Len(invoked) + 1] = "throw")

\* Variant: the header is attached once the success callback has returned.
sendAfterVerify_late(authResult, callbacks) ==
    IF authResult = Thrown THEN sendCatch(Null, <<>>, callbacks)
    ELSE IF authResult.verified THEN
        LET header  == IF Truthy(authResult.newCookie)
                       THEN SetCookie(authResult.newCookie) ELSE Null
            invoked == <<OnSuccess(authResult.newCookie, Null)>>
        IN  IF callbacks[1] = "throw"
            THEN sendCatch(Null, invoked, callbacks)
            ELSE Settled(header, invoked, FALSE)
    ELSE
        LET invoked == <<OnError(authResult.reason, Null)>>
        IN  IF callbacks[1] = "throw"
            THEN sendCatch(Null, invoked, callbacks)
            ELSE Settled(Null, invoked, FALSE)

\* send() from `await auth.isVerified()` on.
sendAfterVerify(authResult, callbacks) ==
    IF authResult = Thrown THEN sendCatch(Null, <<>>, callbacks)
    ELSE IF authResult.verified THEN
        LET header  == IF Truthy(authResult.newCookie)
                       THEN SetCookie(authResult.newCookie) ELSE Null
            invoked == <<OnSuccess(authResult.newCookie, header)>>
        IN  IF callbacks[1] = "throw"
            THEN sendCatch(header, invoked, callbacks)
            ELSE Settled(header, invoked, FALSE)
    ELSE
        LET invoked == <<OnError(authResult.reason, Null)>>
        IN  IF callbacks[1] = "throw"
            THEN sendCatch(Null, invoked, callbacks)
            ELSE Settled(Null, invoked, FALSE)

\* ------------------------------------------------------------------------
\* State
\* ------------------------------------------------------------------------

VARIABLES
    data_password,  \* process.env.data_password, Null when it is not set
    user_cookies,   \* the rows of the table, in insertion order
    calls,          \* the isVerified() calls suspended at an await (a bag)
    returned,       \* the call that returned last: its Auth object, its
                    \* value and the store operations performed for it
    issued,         \* every newCookie a verdict has carried so far
    sent            \* the ApiResponse.send() call: where it stands, its
                    \* request, what isVerified() returned to it, and how
                    \* it settled

vars == <<data_password, user_cookies, calls, returned, issued, sent>>

\* Passwords a client may send: 'se', '' and U+00E9.
Passwords == {<<115, 101>>, <<>>, <<233>>}

\* Values of process.env.data_password: not set, 'se', U+00E9.
Secrets == {Null, <<115, 101>>, <<233>>}

\* Values of the Authorization header: absent, empty, a well-formed
\* credential for each password, and
\*   'Basic c!2U'   'se' with a character outside the alphabet and no padding
\*   'Basic /w=='   the byte 0xFF, which is not UTF-8
\*   'basic c2U='   the scheme in lower case
AuthorizationValues ==
    {Null, <<>>}
    \cup {BasicCredential(p) : p \in Passwords}
    \cup {BasicPrefix \o <<99, 33, 50, 85>>,
          BasicPrefix \o <<47, 119, 61, 61>>,
          <<98, 97, 115, 105, 99, 32, 99, 50, 85, 61>>}

\* Values of the __Host-session cookie: absent, empty, and the tokens the
\* table generates for its first two rows, whether or not it has them yet.
CookieValues == {Null, <<>>, Token(1), Token(2)}

Requests == [authorization : AuthorizationValues, cookie : CookieValues]

\* Arguments of the standalone createCookie: true, false, and a string.
VerifiedArguments ==
    {[typeof |-> "boolean", value |-> TRUE],
     [typeof |-> "boolean", value |-> FALSE],
     [typeof |-> "string"]}

\* Arguments of the standalone checkCookieState: none, '', ' ', and the
\* tokens of the first two rows.
CookieArguments == {Null, <<>>, <<32>>, Token(1), Token(2)}

NoReturn == [op |-> "none"]

\* Requests handed to ApiResponse: those above, and one that is not an
\* object.
SendRequests == Requests \cup {NotAnObject}

\* How the dynamic import of './auth.js' settles.
ImportOutcomes == {"ok", "reject"}

\* The outcomes of the first and of the second callback invocation.
CallbackRuns == [1..2 -> CallbackOutcomes]

NotSent == [pc |-> "idle"]

Init ==
    /\ data_password \in Secrets
    /\ user_cookies = <<>>
    /\ calls = EmptyBag
    /\ returned = NoReturn
    /\ issued = {}
    /\ sent = NotSent

\* ------------------------------------------------------------------------
\* Actions
\* ------------------------------------------------------------------------

\* What a finished isVerified() call leaves behind.
Finished(self, ops, value) ==
    [op |-> "isVerified", self |-> self, ops |-> ops, value |-> value]

NewCookies(value) ==
    IF value # Thrown /\ value.newCookie # Null THEN {value.newCookie} ELSE {}

\* The entry of the store's log for one query.
StoreOp(query, outcome, rows) ==
    [op |-> query.op, outcome |-> outcome, rows |-> rows]

\* new Auth(req).isVerified() up to its first await, or to its return when
\* it needs no store operation.
isVerified(req) ==
    /\ BagCardinality(calls) < MaxCalls
    /\ LET self == Auth(req)
           step == isVerifiedStart(self, data_password)
       IN  IF step.kind = "return"
           THEN /\ returned' = Finished(self, <<>>, step.value)
                /\ issued' = issued \cup NewCookies(step.value)
                /\ UNCHANGED calls
           ELSE /\ calls' = calls (+) SetToBag({[self |-> self,
                                                 query |-> step.query,
                                                 ops |-> <<>>]})
                /\ UNCHANGED <<returned, issued>>
    /\ UNCHANGED <<data_password, user_cookies, sent>>

\* The table answers the query of #createCookie(), and isVerified() runs
\* to its return.  A call awaits inside #createCookie() exactly when it took
\* the branch of the Authorization header.
createCookieAnswer(call, outcome) ==
    /\ BagIn(call, calls)
    /\ hasAuthHeader(call.self)
    /\ (outcome = "ok" /\ call.query.op = "insert")
           => Len(user_cookies) < MaxRecords
    /\ LET rows   == IF outcome = "ok"
                     THEN StoreData(user_cookies, call.query) ELSE <<>>
           ops    == Append(call.ops, StoreOp(call.query, outcome, rows))
           result == isVerifiedAfterCreate(
                         call.self,
                         createCookieResume(DbResponse(outcome, rows)))
       IN  /\ user_cookies' = IF outcome = "ok"
                              THEN StoreApply(user_cookies, call.query)
                              ELSE user_cookies
           /\ returned' = Finished(call.self, ops, result)
           /\ issued' = issued \cup NewCookies(result)
    /\ calls' = calls (-) SetToBag({call})
    /\ UNCHANGED <<data_password, sent>>

\* The table answers the query of #isCookieVerified(), and isVerified()
\* runs to its return.
isCookieVerifiedAnswer(call, outcome) ==
    /\ BagIn(call, calls)
    /\ ~hasAuthHeader(call.self)
    /\ (outcome = "ok" /\ call.query.op = "insert")
           => Len(user_cookies) < MaxRecords
    /\ LET rows   == IF outcome = "ok"
                     THEN StoreData(user_cookies, call.query) ELSE <<>>
           ops    == Append(call.ops, StoreOp(call.query, outcome, rows))
           result == isVerifiedAfterCheck(
                         call.self,
                         isCookieVerifiedResume(DbResponse(outcome, rows)))
       IN  /\ user_cookies' = IF outcome = "ok"
                              THEN StoreApply(user_cookies, call.query)
                              ELSE user_cookies
           /\ returned' = Finished(call.self, ops, result)
           /\ issued' = issued \cup NewCookies(result)
    /\ calls' = calls (-) SetToBag({call})
    /\ UNCHANGED <<data_password, sent>>

\* The standalone createCookie(verified), with the answer of the table.
createCookie(verified, outcome) ==
    /\ outcome = "ok" => Len(user_cookies) < MaxRecords
    /\ LET step == exportedCreateCookieStart(verified)
       IN  IF step.kind = "return"
           THEN /\ returned' = [op |-> "createCookie", ops |-> <<>>,
                                value |-> step.value]
                /\ outcome = "ok"
                /\ UNCHANGED user_cookies
           ELSE LET rows == IF outcome = "ok"
                            THEN StoreData(user_cookies, step.query)
                            ELSE <<>>
                IN  /\ user_cookies' = IF outcome = "ok"
                                       THEN StoreApply(user_cookies, step.query)
                                       ELSE user_cookies
                    /\ returned' =
                          [op |-> "createCookie",
                           ops |-> <<StoreOp(step.query, outcome, rows)>>,
                           value |-> exportedCreateCookieResume(
                                         DbResponse(outcome, rows))]
    /\ UNCHANGED <<data_password, calls, issued, sent>>

\* The standalone checkCookieState(cookie), with the answer of the table.
checkCookieState(cookie, outcome) ==
    /\ LET step == checkCookieStateStart(cookie)
       IN  IF step.kind = "return"
           THEN /\ returned' = [op |-> "checkCookieState", ops |-> <<>>,
                                value |-> step.value]
                /\ outcome = "ok"
                /\ UNCHANGED user_cookies
           ELSE LET rows == IF outcome = "ok"
                            THEN StoreData(user_cookies, step.query)
                            ELSE <<>>
                IN  /\ user_cookies' = IF outcome = "ok"
                                       THEN StoreApply(user_cookies, step.query)
                                       ELSE user_cookies
                    /\ returned' =
                          [op |-> "checkCookieState",
                           ops |-> <<StoreOp(step.query, outcome, rows)>>,
                           value |-> checkCookieStateResume(
                                         DbResponse(outcome, rows))]
    /\ UNCHANGED <<data_password, calls, issued, sent>>

\* A caller builds an ApiResponse for req and calls send(), which suspends
\* at `await import('./auth.js')`.
send(req) ==
    /\ sent.pc \in {"idle", "settled"}
    /\ sent' = [pc |-> "import", req |-> req]
    /\ UNCHANGED <<data_password, user_cookies, calls, returned, issued>>

\* The import settles.  When it rejects, send() rejects: the import is
\* outside the try block.  Otherwise send() builds the Auth object and runs
\* isVerified() to its first await, or on to the callbacks.
importSettles(outcome, callbacks) ==
    /\ sent.pc = "import"
    /\ IF outcome = "reject"
       THEN sent' = [pc |-> "settled", req |-> sent.req,
                     result |-> Settled(Null, <<>>, TRUE)]
       ELSE LET auth == NewAuth(sent.req)
                step == IF auth = Thrown THEN Return(Thrown)
                        ELSE isVerifiedStart(auth, data_password)
            IN  IF step.kind = "return"
                THEN sent' = [pc |-> "settled", req |-> sent.req,
                              authResult |-> step.value,
                              result |-> sendAfterVerify(step.value,
                                                         callbacks)]
                ELSE sent' = [pc |-> "verify", req |-> sent.req,
                              query |-> step.query]
    /\ UNCHANGED <<data_password, user_cookies, calls, returned, issued>>

\* The table answers the query isVerified() awaits inside send(), and
\* send() runs on to the callbacks.
sendAnswer(outcome, callbacks) ==
    /\ sent.pc = "verify"
    /\ (outcome = "ok" /\ sent.query.op = "insert")
           => Len(user_cookies) < MaxRecords
    /\ LET rows   == IF outcome = "ok"
                     THEN StoreData(user_cookies, sent.query) ELSE <<>>
           result == isVerifiedResume(Auth(sent.req),
                                      DbResponse(outcome, rows))
       IN  /\ user_cookies' = IF outcome = "ok"
                              THEN StoreApply(user_cookies, sent.query)
                              ELSE user_cookies
           /\ sent' = [pc |-> "settled", req |-> sent.req,
                       outcome |-> outcome,
                       authResult |-> result,
                       result |-> sendAfterVerify(result, callbacks)]
    /\ UNCHANGED <<data_password, calls, returned, issued>>

Next ==
    \/ \E req \in Requests : isVerified(req)
    \/ \E call \in BagToSet(calls), outcome \in Outcomes :
          createCookieAnswer(call, outcome)
    \/ \E call \in BagToSet(calls), outcome \in Outcomes :
          isCookieVerifiedAnswer(call, outcome)
    \/ \E verified \in VerifiedArguments, outcome \in Outcomes :
          createCookie(verified, outcome)
    \/ \E cookie \in CookieArguments, outcome \in Outcomes :
          checkCookieState(cookie, outcome)

Spec == Init /\ [][Next]_vars

\* The requests that go through ApiResponse.send(), one at a time, next to
\* the standalone createCookie.
SendNext ==
    \/ \E req \in SendRequests : send(req)
    \/ \E outcome \in ImportOutcomes, callbacks \in CallbackRuns :
          importSettles(outcome, callbacks)
    \/ \E outcome \in Outcomes, callbacks \in CallbackRuns :
          sendAnswer(outcome, callbacks)
    \/ \E verified \in VerifiedArguments, outcome \in Outcomes :
          createCookie(verified, outcome)

SendSpec == Init /\ [][SendNext]_vars

\* ------------------------------------------------------------------------
\* Vocabulary of the properties
\* ------------------------------------------------------------------------

\* The last return is the one of an isVerified() call.
VerifyReturned == returned.op = "isVerified"

\* The authorization value carries the literal 'Basic ' in front.
HasBasicPrefix(h) ==
    /\ Len(h) >= Len(BasicPrefix)
    /\ \A i \in 1..Len(BasicPrefix) : h[i] = BasicPrefix[i]

\* What follows the prefix.
Payload(h) == SubSeq(h, Len(BasicPrefix) + 1, Len(h))

\* An inline credential is present (a missing header and an empty one both
\* count as absent) and its decoded payload is the configured secret.
InlineMatch(self) ==
    /\ Truthy(self.authHeader)
    /\ HasBasicPrefix(self.authHeader)
    /\ Utf8Decode(Base64Decode(Payload(self.authHeader))) = data_password

\* The store operations of the last return that are inserts / selects.
Inserts == SelectSeq(returned.ops, LAMBDA o : o.op = "insert")
Selects == SelectSeq(returned.ops, LAMBDA o : o.op = "select")

\* The rows of the table, as a set.
Rows == {user_cookies[i] : i \in 1..Len(user_cookies)}

\* No inline credential, a session token, and a lookup that answered with a
\* verified record of that token.
CookieMatch ==
    /\ ~Truthy(returned.self.authHeader)
    /\ Truthy(returned.self.sessionCookie)
    /\ Len(Selects) = 1
    /\ Selects[1].outcome = "ok"
    /\ Len(Selects[1].rows) > 0
    /\ Selects[1].rows[1].cookie_string = returned.self.sessionCookie
    /\ Selects[1].rows[1].is_verified
    /\ Selects[1].rows[1] \in Rows

\* ------------------------------------------------------------------------
\* C1
\* ------------------------------------------------------------------------

\* C1: isVerified returns verified = true if and only if either an
\* Authorization header is present and its base64-decoded payload after the
\* 'Basic ' prefix equals the configured secret, or no Authorization header
\* is present, a __Host-session cookie is present, the lookup returned a
\* record for that token and the record's is_verified flag is true.
C1_VerifiedIff ==
    VerifyReturned =>
        /\ returned.value # Thrown
        /\ returned.value.verified <=>
              (InlineMatch(returned.self) \/ CookieMatch)

\* A verdict that is true through the cookie alone.
C1_Witness ==
    /\ VerifyReturned
    /\ returned.value.verified
    /\ CookieMatch
    /\ ~InlineMatch(returned.self)

\* ------------------------------------------------------------------------
\* C2
\* ------------------------------------------------------------------------

\* The last call added a row to the table.
CreatedRecord == \E i \in 1..Len(Inserts) : Len(Inserts[i].rows) > 0

\* C2 as stated: a verify call creates a Session Record if and only if its
\* inline credential matched the secret.
C2_CreatedIffMatch ==
    VerifyReturned => (CreatedRecord <=> InlineMatch(returned.self))

\* C2, amended: a verify call whose inline credential matched the secret
\* asks the store for exactly one insert, of a row with is_verified = true,
\* and the row is added exactly when that insert succeeds; a verify call of
\* any other kind asks for no insert and adds no row.
C2_CreationOnlyOnMatch ==
    VerifyReturned =>
        IF InlineMatch(returned.self)
        THEN /\ Len(Inserts) = 1
             /\ CreatedRecord <=> Inserts[1].outcome = "ok"
             /\ CreatedRecord =>
                   /\ Len(Inserts[1].rows) = 1
                   /\ Inserts[1].rows[1].is_verified = TRUE
                   /\ Inserts[1].rows[1] \in Rows
        ELSE Len(Inserts) = 0

\* A matching credential whose insert added a row, sent with a session
\* cookie as well.
C2_Witness ==
    /\ VerifyReturned
    /\ InlineMatch(returned.self)
    /\ Truthy(returned.self.sessionCookie)
    /\ CreatedRecord

\* ------------------------------------------------------------------------
\* C3
\* ------------------------------------------------------------------------

\* A store operation of the last call failed.
StoreFailed ==
    \E i \in 1..Len(returned.ops) : returned.ops[i].outcome # "ok"

LookupFailed == \E i \in 1..Len(Selects) : Selects[i].outcome # "ok"

\* The authorization value is present and lacks the 'Basic ' prefix.
Malformed(self) ==
    Truthy(self.authHeader) /\ ~HasBasicPrefix(self.authHeader)

InsertFailed == \E i \in 1..Len(Inserts) : Inserts[i].outcome # "ok"

\* C4: when the inline credential matches the secret and the creation of
\* the record fails (an error result or an exception), the call returns
\* verified = true, reason 'Authorization header verified', newCookie = null,
\* and nothing is raised.
C4_CreationFailureKeepsVerdict ==
    (VerifyReturned /\ InlineMatch(returned.self) /\ InsertFailed) =>
        returned.value =
            Verdict(TRUE, "Authorization header verified", Null)

\* A matching credential whose insert threw.
C4_Witness ==
    /\ VerifyReturned
    /\ InlineMatch(returned.self)
    /\ Len(Inserts) = 1
    /\ Inserts[1].outcome = "throw"

\* ------------------------------------------------------------------------
\* C5
\* ------------------------------------------------------------------------

\* C5: newCookie is non-null only if this call created a record and the
\* store confirmed it; it is then the token of that record, which is in the
\* table with is_verified = true.  Every verified = false verdict and every
\* cookie-based verdict has newCookie = null.
C5_NewCookieOnlyWhenCreated ==
    VerifyReturned =>
        /\ returned.value # Thrown
        /\ returned.value.newCookie # Null =>
              /\ returned.value.verified
              /\ Len(Inserts) = 1
              /\ Inserts[1].outcome = "ok"
              /\ Len(Inserts[1].rows) = 1
              /\ returned.value.newCookie = Inserts[1].rows[1].cookie_string
              /\ Inserts[1].rows[1].is_verified = TRUE
              /\ Inserts[1].rows[1] \in Rows
        /\ (~returned.value.verified \/ ~Truthy(returned.self.authHeader)) =>
              returned.value.newCookie = Null

\* A verdict that carries a new cookie.
C5_Witness ==
    /\ VerifyReturned
    /\ returned.value.newCookie # Null

\* ------------------------------------------------------------------------
\* C6
\* ------------------------------------------------------------------------

\* C6: with no inline credential and a session token, a lookup that fails
\* (an error result or an exception) is treated as 'not found': the verdict
\* is verified = false, reason 'Session cookie not found', newCookie = null,
\* and no exception leaves isVerified.
C6_LookupFailureIsNotFound ==
    (/\ VerifyReturned
     /\ ~Truthy(returned.self.authHeader)
     /\ Truthy(returned.self.sessionCookie)
     /\ LookupFailed) =>
        returned.value = Verdict(FALSE, "Session cookie not found", Null)

\* The lookup of a token answered with an error while the table holds a
\* verified record of it.
C6_Witness ==
    /\ VerifyReturned
    /\ ~Truthy(returned.self.authHeader)
    /\ Len(Selects) = 1
    /\ Selects[1].outcome = "error"
    /\ \E r \in Rows : /\ r.cookie_string = returned.self.sessionCookie
                       /\ r.is_verified

\* ------------------------------------------------------------------------
\* C7
\* ------------------------------------------------------------------------

\* The suspended call returns in this step.
Returns(call) == BagIn(call, calls) /\ calls' = calls (-) SetToBag({call})

\* The call carries no inline credential and a session token.
CookieOnly(self) == ~Truthy(self.authHeader) /\ Truthy(self.sessionCookie)

\* The records the table holds for a token.
RecordsOf(token) == {r \in Rows : r.cookie_string = token}

\* C7 as stated: with no inline credential and a session token, a token
\* without a record yields 'Session cookie not found', a token whose record
\* has is_verified = false yields 'Session cookie is not verified', and a
\* token whose record has is_verified = true yields verified = true,
\* 'Session cookie verified', newCookie = null.
C7_VerdictFollowsRecord ==
    [][\A call \in BagToSet(calls) :
          (Returns(call) /\ CookieOnly(call.self)) =>
              LET recs == RecordsOf(call.self.sessionCookie)
              IN  /\ recs = {} =>
                        returned'.value =
                            Verdict(FALSE, "Session cookie not found", Null)
                  /\ (recs # {} /\ \A r \in recs : ~r.is_verified) =>
                        returned'.value =
                            Verdict(FALSE, "Session cookie is not verified",
                                    Null)
                  /\ (recs # {} /\ \A r \in recs : r.is_verified) =>
                        returned'.value =
                            Verdict(TRUE, "Session cookie verified", Null)
      ]_vars

\* C7, amended: with no inline credential and a session token, a token
\* without a record yields 'Session cookie not found'; when the lookup
\* succeeds, a token whose record has is_verified = false yields 'Session
\* cookie is not verified' and a token whose record has is_verified = true
\* yields verified = true, 'Session cookie verified', newCookie = null; when
\* the lookup fails, every token yields 'Session cookie not found'.
C7_VerdictFollowsLookup ==
    [][\A call \in BagToSet(calls) :
          (Returns(call) /\ CookieOnly(call.self)) =>
              LET recs   == RecordsOf(call.self.sessionCookie)
                  lookup == returned'.ops[Len(returned'.ops)]
              IN  /\ returned'.self = call.self
                  /\ lookup.op = "select"
                  /\ (recs = {} \/ lookup.outcome # "ok") =>
                        returned'.value =
                            Verdict(FALSE, "Session cookie not found", Null)
                  /\ (/\ lookup.outcome = "ok"
                      /\ recs # {}
                      /\ \A r \in recs : ~r.is_verified) =>
                        returned'.value =
                            Verdict(FALSE, "Session cookie is not verified",
                                    Null)
                  /\ (/\ lookup.outcome = "ok"
                      /\ recs # {}
                      /\ \A r \in recs : r.is_verified) =>
                        returned'.value =
                            Verdict(TRUE, "Session cookie verified", Null)
      ]_vars

\* The lookup of a token whose record is not verified has answered.
C7_Witness ==
    /\ VerifyReturned
    /\ CookieOnly(returned.self)
    /\ Len(Selects) = 1
    /\ Selects[1].outcome = "ok"
    /\ \E r \in RecordsOf(returned.self.sessionCookie) : ~r.is_verified
    /\ returned.value.reason = "Session cookie is not verified"

\* ------------------------------------------------------------------------
\* C8
\* ------------------------------------------------------------------------

\* C8: a present authorization value that does not start with 'Basic '
\* yields verified = false with reason 'Invalid Authorization pattern',
\* whatever the table holds and whatever the session cookie is, and no
\* store operation is performed for the call.
C8_InvalidPattern ==
    (VerifyReturned /\ Malformed(returned.self)) =>
        /\ returned.value =
              Verdict(FALSE, "Invalid Authorization pattern", Null)
        /\ returned.ops = <<>>

\* Such a value, sent with the token of a verified record.
C8_Witness ==
    /\ VerifyReturned
    /\ Malformed(returned.self)
    /\ \E r \in RecordsOf(returned.self.sessionCookie) : r.is_verified

\* ------------------------------------------------------------------------
\* C9
\* ------------------------------------------------------------------------

\* The password of a well-formed credential that is not the secret.
WrongPasswords(self) ==
    {p \in Passwords :
        p # data_password /\ self.authHeader = BasicCredential(p)}

\* C9: for every inline credential 'Basic ' + base64(S') with S' different
\* from the configured secret, the verdict is verified = false with reason
\* 'Password does not match', and no store operation is performed for the
\* call: no record is created.
C9_WrongPassword ==
    (VerifyReturned /\ WrongPasswords(returned.self) # {}) =>
        /\ returned.value = Verdict(FALSE, "Password does not match", Null)
        /\ returned.ops = <<>>

\* The empty password, sent while a secret is configured and a verified
\* record of the session cookie exists.
C9_Witness ==
    /\ VerifyReturned
    /\ data_password # Null
    /\ <<>> \in WrongPasswords(returned.self)
    /\ \E r \in RecordsOf(returned.self.sessionCookie) : r.is_verified

\* ------------------------------------------------------------------------
\* C10
\* ------------------------------------------------------------------------

\* The call carries 'Basic ' + base64(S) for the configured secret S.
SecretCredential(self) ==
    data_password # Null /\ self.authHeader = BasicCredential(data_password)

Tokens == {r.cookie_string : r \in Rows}

\* C10 as stated: every call carrying 'Basic ' + base64(S) with S the
\* configured secret returns verified = true and a newly minted token, and
\* the tokens returned are pairwise distinct and distinct from every token
\* already in the table.
C10_AlwaysMintsDistinct ==
    [][\A call \in BagToSet(calls) :
          (Returns(call) /\ SecretCredential(call.self)) =>
              /\ returned'.value.verified
              /\ returned'.value.newCookie # Null
              /\ returned'.value.newCookie \notin issued
              /\ returned'.value.newCookie \notin Tokens
      ]_vars

\* C10, amended: every call carrying 'Basic ' + base64(S) with S the
\* configured secret returns verified = true; it yields a token exactly when
\* the insert succeeds, and that token is the one of the row just added,
\* distinct from every token returned before and from every token already
\* in the table.
C10_MintsDistinctWhenCreated ==
    [][\A call \in BagToSet(calls) :
          (Returns(call) /\ SecretCredential(call.self)) =>
              LET token == returned'.value.newCookie
                  n     == Len(user_cookies')
              IN  /\ returned'.self = call.self
                  /\ returned'.value.verified
                  /\ returned'.value.reason = "Authorization header verified"
                  /\ token # Null <=> n = Len(user_cookies) + 1
                  /\ token # Null <=>
                        returned'.ops[Len(returned'.ops)].outcome = "ok"
                  /\ token # Null =>
                        /\ token = user_cookies'[n].cookie_string
                        /\ token \notin issued
                        /\ token \notin Tokens
      ]_vars

\* Two tokens have been returned, the second one to a caller that sent the
\* first one as its session cookie.
C10_Witness ==
    /\ VerifyReturned
    /\ SecretCredential(returned.self)
    /\ Cardinality(issued) = 2
    /\ returned.self.sessionCookie \in issued
    /\ returned.value.newCookie \in issued
    /\ returned.value.newCookie # returned.self.sessionCookie

\* ------------------------------------------------------------------------
\* C11
\* ------------------------------------------------------------------------

\* The token is still valid: the table holds a record of it, and every
\* record of it has is_verified = true.
StillValid(token) ==
    /\ RecordsOf(token) # {}
    /\ \A r \in RecordsOf(token) : r.is_verified

\* C11 as stated: every verification of a still-valid token, with no inline
\* credential, creates no record, leaves the table unchanged and returns
\* verified = true, 'Session cookie verified', newCookie = null.
C11_SameVerdictEveryTime ==
    [][\A call \in BagToSet(calls) :
          (/\ Returns(call)
           /\ CookieOnly(call.self)
           /\ StillValid(call.self.sessionCookie)) =>
              /\ user_cookies' = user_cookies
              /\ returned'.value =
                    Verdict(TRUE, "Session cookie verified", Null)
      ]_vars

\* C11, amended: every verification of a still-valid token, with no inline
\* credential, performs one select and nothing else, leaves the table
\* unchanged and hands out no token; each time the lookup succeeds it
\* returns verified = true, 'Session cookie verified', newCookie = null, and
\* each time the lookup fails it returns verified = false, 'Session cookie
\* not found', newCookie = null.
C11_IdempotentWhenLookupSucceeds ==
    [][\A call \in BagToSet(calls) :
          (/\ Returns(call)
           /\ CookieOnly(call.self)
           /\ StillValid(call.self.sessionCookie)) =>
              LET ops == returned'.ops
              IN  /\ returned'.self = call.self
                  /\ user_cookies' = user_cookies
                  /\ issued' = issued
                  /\ Len(ops) = 1
                  /\ ops[1].op = "select"
                  /\ StillValid(call.self.sessionCookie)'
                  /\ returned'.value =
                        IF ops[1].outcome = "ok"
                        THEN Verdict(TRUE, "Session cookie verified", Null)
                        ELSE Verdict(FALSE, "Session cookie not found", Null)
      ]_vars

\* A still-valid token has just been verified, and a second verification of
\* the same token is under way.
C11_Witness ==
    /\ VerifyReturned
    /\ CookieOnly(returned.self)
    /\ StillValid(returned.self.sessionCookie)
    /\ returned.value = Verdict(TRUE, "Session cookie verified", Null)
    /\ \E call \in BagToSet(calls) : call.self = returned.self

\* ------------------------------------------------------------------------
\* C12
\* ------------------------------------------------------------------------

\* send() has settled: its promise is resolved or rejected.
SendSettled == sent.pc = "settled"

\* The callbacks send() has invoked, in order.
Invoked == sent.result.invoked

\* C12: send() never lets an exception through to its caller: its promise
\* is never rejected, whether the exception comes from loading the Auth
\* module, from constructing Auth or from a callback; and when constructing
\* Auth throws, the last callback invoked is the error callback, with the
\* reason 'Internal authentication error'.
C12_NeverPropagates ==
    SendSettled =>
        /\ ~sent.result.rejected
        /\ sent.req = NotAnObject =>
              /\ Invoked # <<>>
              /\ Invoked[Len(Invoked)] =
                    OnError("Internal authentication error", Null)

\* ------------------------------------------------------------------------
\* C13
\* ------------------------------------------------------------------------

\* isVerified() has returned a verdict to send().
HasVerdict ==
    /\ SendSettled
    /\ "authResult" \in DOMAIN sent
    /\ sent.authResult # Thrown

\* '__Host-session=<token>; Max-Age=2592000; HttpOnly; Secure; Path=/'
SessionHeader(token) ==
    <<95, 95, 72, 111, 115, 116, 45, 115, 101, 115, 115, 105, 111, 110, 61>>
    \o token
    \o <<59, 32, 77, 97, 120, 45, 65, 103, 101, 61, 50, 53, 57, 50, 48, 48, 48, 59, 32, 72, 116, 116, 112, 79, 110, 108, 121, 59, 32, 83, 101, 99, 117, 114, 101, 59, 32, 80, 97, 116, 104, 61, 47>>

\* C13: the response carries a Set-Cookie header exactly when the verdict
\* is verified = true with a newCookie that is not null, and the header is
\* then '__Host-session=<newCookie>; Max-Age=2592000; HttpOnly; Secure;
\* Path=/'; on a verified verdict the success callback is the first callback
\* invoked, it is handed newCookie, and the response it is handed carries
\* the header already; on an unverified verdict there is no Set-Cookie
\* header and the error callback is the first callback invoked, with the
\* reason of the verdict.
C13_SetCookieThenCallback ==
    HasVerdict =>
        LET verdict == sent.authResult
            header  == sent.result.header
        IN  /\ header # Null <=>
                  (verdict.verified /\ verdict.newCookie # Null)
            /\ header # Null => header = SessionHeader(verdict.newCookie)
            /\ Invoked # <<>>
            /\ verdict.verified =>
                  Invoked[1] = OnSuccess(verdict.newCookie, header)
            /\ ~verdict.verified =>
                  /\ header = Null
                  /\ Invoked[1] = OnError(verdict.reason, Null)

\* A verdict with a new token has been dispatched: the header is on the
\* response and the success callback has run.
C13_Witness ==
    /\ HasVerdict
    /\ sent.authResult.verified
    /\ sent.authResult.newCookie # Null
    /\ sent.result.header # Null
    /\ Invoked[1].callback = "onSuccess"
    /\ ~sent.result.rejected

\* ------------------------------------------------------------------------
\* C14
\* ------------------------------------------------------------------------

\* The call failed on its inline credential: an Authorization value that
\* lacks the prefix or does not decode to the configured secret.
InlineFailed(self) == Truthy(self.authHeader) /\ ~InlineMatch(self)

\* The call carries neither an inline credential nor a session token.
NoCredentials(self) == ~Truthy(self.authHeader) /\ ~Truthy(self.sessionCookie)

\* C14: an isVerified() call performs at most one store operation, a select
\* by its session token (when it carries no inline credential) or an insert
\* (when its inline credential matches), never both; a call that fails on
\* its inline credential or carries no credentials performs none.  A call
\* suspended at its await has performed none yet.
C14_AtMostOneRoundTrip ==
    /\ VerifyReturned =>
          LET self == returned.self
          IN  /\ Len(returned.ops) <= 1
              /\ Len(Inserts) + Len(Selects) = Len(returned.ops)
              /\ Len(Inserts) = 0 \/ Len(Selects) = 0
              /\ Len(Inserts) = 1 => InlineMatch(self)
              /\ Len(Selects) = 1 =>
                    /\ CookieOnly(self)
                    /\ Selects[1] =
                          StoreOp(SelectQuery(self.sessionCookie),
                                  Selects[1].outcome, Selects[1].rows)
              /\ (InlineFailed(self) \/ NoCredentials(self)) =>
                    returned.ops = <<>>
    /\ \A call \in BagToSet(calls) : call.ops = <<>>

\* A call with a wrong password and the token of a verified record has
\* returned.
C14_Witness ==
    /\ VerifyReturned
    /\ InlineFailed(returned.self)
    /\ HasBasicPrefix(returned.self.authHeader)
    /\ StillValid(returned.self.sessionCookie)
    /\ returned.ops = <<>>

\* ------------------------------------------------------------------------
\* C15
\* ------------------------------------------------------------------------

\* C15: a token an isVerified() call has returned as newCookie, presented
\* later as the session cookie of a call without inline credential, yields
\* verified = true, 'Session cookie verified', newCookie = null whenever the
\* lookup succeeds, whatever calls came in between.
C15_IssuedTokenVerifies ==
    [][\A call \in BagToSet(calls) :
          (/\ Returns(call)
           /\ CookieOnly(call.self)
           /\ call.self.sessionCookie \in issued
           /\ returned'.ops[Len(returned'.ops)].outcome = "ok") =>
              /\ returned'.self = call.self
              /\ returned'.value =
                    Verdict(TRUE, "Session cookie verified", Null)
      ]_vars

\* The first of two tokens handed out has been presented as session cookie
\* and has verified.
C15_Witness ==
    /\ VerifyReturned
    /\ CookieOnly(returned.self)
    /\ Cardinality(issued) = 2
    /\ returned.self.sessionCookie = Token(1)
    /\ returned.self.sessionCookie \in issued
    /\ returned.value = Verdict(TRUE, "Session cookie verified", Null)

\* ------------------------------------------------------------------------
\* C16
\* ------------------------------------------------------------------------

\* verified and reason as the Authorization value and the configured secret
\* alone determine them.
InlineVerdict(h) ==
    IF ~HasBasicPrefix(h)
    THEN [verified |-> FALSE, reason |-> "Invalid Authorization pattern"]
    ELSE IF Utf8Decode(Base64Decode(Payload(h))) # data_password
    THEN [verified |-> FALSE, reason |-> "Password does not match"]
    ELSE [verified |-> TRUE, reason |-> "Authorization header verified"]

\* C16: when the Authorization header is present, verified and reason of
\* the verdict are a function of the header and the configured secret
\* alone, so two requests with the same header get the same ones whatever
\* their session cookies and whatever the table holds, and the table is
\* not read; a wrong or malformed credential is rejected even with the
\* token of a verified record, and a matching credential performs its
\* insert even with such a token, the token it returns being a new one.
C16_InlineHasPriority ==
    [][/\ \* a call that returns without a store operation
          (/\ calls' = calls
           /\ returned'.op = "isVerified"
           /\ returned' # returned
           /\ Truthy(returned'.self.authHeader)) =>
              LET self == returned'.self
              IN  /\ InlineFailed(self)
                  /\ returned'.value.verified =
                        InlineVerdict(self.authHeader).verified
                  /\ returned'.value.reason =
                        InlineVerdict(self.authHeader).reason
                  /\ ~returned'.value.verified
                  /\ returned'.ops = <<>>
                  /\ user_cookies' = user_cookies
       /\ \* a call that returns from its await
          \A call \in BagToSet(calls) :
          (Returns(call) /\ Truthy(call.self.authHeader)) =>
              LET self == call.self
                  ops  == returned'.ops
                  n    == Len(user_cookies')
              IN  /\ returned'.self = self
                  /\ InlineMatch(self)
                  /\ returned'.value.verified =
                        InlineVerdict(self.authHeader).verified
                  /\ returned'.value.reason =
                        InlineVerdict(self.authHeader).reason
                  /\ Len(ops) = 1
                  /\ ops[1].op = "insert"
                  /\ ops[1].outcome = "ok" =>
                        /\ n = Len(user_cookies) + 1
                        /\ user_cookies'[n].is_verified
                        /\ returned'.value.newCookie =
                              user_cookies'[n].cookie_string
                        /\ returned'.value.newCookie \notin Tokens
      ]_vars

\* A matching credential sent with the token of the first record, which is
\* verified, has been answered with the token of the second record.
C16_Witness ==
    /\ VerifyReturned
    /\ InlineMatch(returned.self)
    /\ returned.self.sessionCookie = Token(1)
    /\ StillValid(returned.self.sessionCookie)
    /\ returned.value.verified
    /\ returned.value.newCookie = Token(2)

\* ------------------------------------------------------------------------
\* C17
\* ------------------------------------------------------------------------

\* The token has a record with is_verified = false.
Unverified(token) == \E r \in RecordsOf(token) : ~r.is_verified

\* C17: no step of an isVerified() call, of checkCookieState or of
\* createCookie changes or removes a record of the table: every record
\* keeps its place, its token, its id and its is_verified flag; and a call
\* without inline credential whose token has a record with is_verified =
\* false never returns verified = true.
C17_RecordsNeverChange ==
    [][/\ Len(user_cookies') >= Len(user_cookies)
       /\ \A i \in 1..Len(user_cookies) : user_cookies'[i] = user_cookies[i]
       /\ \A call \in BagToSet(calls) :
             (/\ Returns(call)
              /\ CookieOnly(call.self)
              /\ Unverified(call.self.sessionCookie)) =>
                 /\ ~returned'.value.verified
                 /\ Unverified(call.self.sessionCookie)'
      ]_vars

\* The record added first, unverified, has been looked up by an
\* isVerified() call after a second record was added, and is still
\* unverified.
C17_Witness ==
    /\ VerifyReturned
    /\ CookieOnly(returned.self)
    /\ returned.self.sessionCookie = Token(1)
    /\ Len(user_cookies) = 2
    /\ user_cookies[1] =
          [record_id |-> 1, cookie_string |-> Token(1), is_verified |-> FALSE]
    /\ returned.value = Verdict(FALSE, "Session cookie is not verified", Null)

\* ------------------------------------------------------------------------
\* C18
\* ------------------------------------------------------------------------

\* The verdict of a call without inline credential that runs alone: what
\* the records of its token and the outcome of its lookup determine.
AloneVerdict(recs, outcome) ==
    IF outcome # "ok" \/ recs = {}
    THEN Verdict(FALSE, "Session cookie not found", Null)
    ELSE IF \E r \in recs : ~r.is_verified
    THEN Verdict(FALSE, "Session cookie is not verified", Null)
    ELSE Verdict(TRUE, "Session cookie verified", Null)

\* The table grows by one verified row.
OneVerifiedRowAdded ==
    /\ Len(user_cookies') = Len(user_cookies) + 1
    /\ SubSeq(user_cookies', 1, Len(user_cookies)) = user_cookies
    /\ user_cookies'[Len(user_cookies')].is_verified

\* C18: with isVerified() calls suspended at their awaits in any number and
\* answered in any order, (a) the records of a token that is in the table
\* stay what they are on every step, whichever call takes it; (b) a step of
\* an isVerified() call adds one verified row when the call carries a
\* matching inline credential and its insert succeeds, and leaves the table
\* as it is otherwise, so the table ends as the initial one plus one
\* verified row per such call; (c) a call without inline credential whose
\* token is in the table returns what it would return alone: the verdict
\* the records of its token and the outcome of its lookup determine.
C18_InterleavingsAreIndependent ==
    [][/\ \A token \in Tokens : RecordsOf(token)' = RecordsOf(token)
       /\ (/\ calls' = calls
           /\ returned'.op = "isVerified"
           /\ returned' # returned) =>
              /\ ~InlineMatch(returned'.self)
              /\ user_cookies' = user_cookies
       /\ \A call \in BagToSet(calls) :
             Returns(call) =>
                LET outcome == returned'.ops[Len(returned'.ops)].outcome
                    token   == call.self.sessionCookie
                IN  /\ returned'.self = call.self
                    /\ IF InlineMatch(call.self) /\ outcome = "ok"
                       THEN OneVerifiedRowAdded
                       ELSE user_cookies' = user_cookies
                    /\ (CookieOnly(call.self) /\ token \in Tokens) =>
                          returned'.value =
                              AloneVerdict(RecordsOf(token), outcome)
      ]_vars

\* A call without inline credential has returned verified = true for the
\* first record while a call with a matching inline credential, started
\* when the table was the same, still waits for its insert.
C18_Witness ==
    /\ VerifyReturned
    /\ CookieOnly(returned.self)
    /\ returned.self.sessionCookie = Token(1)
    /\ returned.value = Verdict(TRUE, "Session cookie verified", Null)
    /\ Len(user_cookies) = 1
    /\ \E call \in BagToSet(calls) : InlineMatch(call.self)

\* ------------------------------------------------------------------------
\* C19
\* ------------------------------------------------------------------------

\* C19: a send() that has settled has invoked one callback, once: never
\* the success callback and the error callback both, never the error
\* callback twice, also when a callback throws.
C19_ExactlyOneCallbackOnce ==
    SendSettled => Len(Invoked) = 1

\* ------------------------------------------------------------------------
\* C20
\* ------------------------------------------------------------------------

\* C20: once the store has answered, the isVerified() call has returned and
\* send() has invoked a callback: no send() settles, after an answer of the
\* store or without needing one, with no callback invoked.
C20_SettledSendInvokedCallback ==
    SendSettled => Invoked # <<>>

====
